---- MODULE Spec2Model ----
(***************************************************************************)
(* A model of the AI code reviewer command line tool (code_reviewer.py).   *)
(*                                                                         *)
(* Text is a sequence of one-character strings, so that prefix matching,   *)
(* splitting on line breaks, stripping and interpolation are computed      *)
(* character by character as Python computes them.  A Python value that    *)
(* may be None is NoneVal or Str(s).                                       *)
(***************************************************************************)
EXTENDS Integers, Sequences, FiniteSets, TLC

(***************************************************************************)
(* Bounds of the model.                                                    *)
(***************************************************************************)
MaxDiffLen == 2
MaxCtxLen == 2
MaxLines == 2

(***************************************************************************)
(* Python values.                                                          *)
(***************************************************************************)
NoneVal == [none |-> TRUE]

Str(s) == [str |-> s]

IsStr(v) == DOMAIN v = {"str"}

\* Python truthiness of an Optional[str]: None and "" are falsy.
Truthy(v) == IsStr(v) /\ v.str /= <<>>

\* a or b
PyOr(a, b) == IF Truthy(a) THEN a ELSE b

NL == "\n"

\* str.isspace() for one character.
Whitespace == {" ", NL, "\t", "\r"}

RECURSIVE LStrip(_)
LStrip(s) == IF s /= <<>> /\ Head(s) \in Whitespace THEN LStrip(Tail(s)) ELSE s

RECURSIVE RStrip(_)
RStrip(s) ==
    IF s /= <<>> /\ s[Len(s)] \in Whitespace THEN RStrip(SubSeq(s, 1, Len(s) - 1)) ELSE s

\* str.strip()
Strip(s) == RStrip(LStrip(s))

\* str.startswith(prefix)
StartsWith(s, prefix) ==
    Len(prefix) <= Len(s) /\ SubSeq(s, 1, Len(prefix)) = prefix

\* str.split('\n'): always at least one piece, empty pieces kept.
RECURSIVE SplitFrom(_, _, _)
SplitFrom(s, i, cur) ==
    IF i > Len(s) THEN <<cur>>
    ELSE IF s[i] = NL THEN <<cur>> \o SplitFrom(s, i + 1, <<>>)
    ELSE SplitFrom(s, i + 1, Append(cur, s[i]))

\* What str.splitlines() would give instead: no empty piece after a final line break.
SplitLinesDropLast(s) ==
    LET p == SplitFrom(s, 1, <<>>)
    IN IF p[Len(p)] = <<>> THEN SubSeq(p, 1, Len(p) - 1) ELSE p

Split(s) == SplitFrom(s, 1, <<>>)

BoundedSeq(S, n) == UNION {[1..k -> S] : k \in 0..n}

(***************************************************************************)
(* CodeReviewer.__init__                                                   *)
(***************************************************************************)
ModelName == <<"claude-haiku-4-5">>

\* __init__ that only rejects a missing key, not an empty one.
ResolveApiKeyNoneOnly(api_key, env) ==
    LET key == IF IsStr(api_key) THEN api_key ELSE env
    IN [raised |-> ~IsStr(key), api_key |-> key]

\* self.api_key = api_key or os.getenv(...); if not self.api_key: raise ValueError
ResolveApiKey(api_key, env) ==
    LET key == PyOr(api_key, env)
    IN [raised |-> ~Truthy(key), api_key |-> key]

(***************************************************************************)
(* CodeReviewer.get_git_diff                                               *)
(***************************************************************************)
ThreeDotHead == <<".", ".", ".", "H", "E", "A", "D">>

GitCmd(target_branch, staged_only) ==
    IF staged_only THEN <<"git", "diff", "--cached">>
    ELSE <<"git", "diff", target_branch \o ThreeDotHead>>

\* What subprocess.run(cmd, check=True) can do.
GitOutcomes == {"not_found", "nonzero", "zero"}

\* get_git_diff without its except clause: CalledProcessError escapes.
GitDiffResultNoExcept(outcome, stdout) ==
    CASE outcome = "zero" -> [raised |-> "", value |-> Str(stdout), log |-> <<>>]
      [] outcome = "nonzero" ->
            [raised |-> "CalledProcessError", value |-> NoneVal, log |-> <<>>]
      [] outcome = "not_found" ->
            [raised |-> "FileNotFoundError", value |-> NoneVal, log |-> <<>>]

\* The result of get_git_diff: the value returned, or the exception that escapes.
GitDiffResult(outcome, stdout) ==
    CASE outcome = "zero" -> [raised |-> "", value |-> Str(stdout), log |-> <<>>]
      [] outcome = "nonzero" ->
            [raised |-> "", value |-> NoneVal, log |-> <<"ERROR Error getting git diff">>]
      [] outcome = "not_found" ->
            [raised |-> "FileNotFoundError", value |-> NoneVal, log |-> <<>>]

(***************************************************************************)
(* CodeReviewer.review_code                                                *)
(***************************************************************************)
MaxTokens == 4000

SystemPrompt == <<"system_prompt">>

ReviewThis ==
    <<"R","e","v","i","e","w"," ","t","h","i","s"," ","c","o","d","e"," ",
      "c","h","a","n","g","e",":">>

\* The backtick character (the lexer of TLA+ admits none in a string).
Backquote == "BQ"

FenceOpen == <<Backquote, Backquote, Backquote, "d", "i", "f", "f">>

FenceClose == <<Backquote, Backquote, Backquote>>

ProvideReview ==
    <<"P","r","o","v","i","d","e"," ","a"," ","d","e","t","a","i","l","e","d"," ",
      "r","e","v","i","e","w"," ","f","o","l","l","o","w","i","n","g"," ",
      "t","h","e"," ","f","o","r","m","a","t"," ","s","p","e","c","i","f","i","e","d",".">>

\* A prompt that strips the diff before embedding it.
UserPromptStripped(diff_content, context) ==
    ReviewThis \o <<NL, NL>> \o context \o <<NL, NL>> \o FenceOpen \o <<NL>>
        \o Strip(diff_content) \o <<NL>> \o FenceClose \o <<NL, NL>> \o ProvideReview

\* The f-string user_prompt.
UserPrompt(diff_content, context) ==
    ReviewThis \o <<NL, NL>> \o context \o <<NL, NL>> \o FenceOpen \o <<NL>>
        \o diff_content \o <<NL>> \o FenceClose \o <<NL, NL>> \o ProvideReview

\* What self.client.messages.create(...) followed by message.content[0].text can do.
ApiOutcomes == {"api_error", "other_error", "no_content", "ok"}

\* The result of review_code after the call: the text, or None with the error logged.
ReviewResult(outcome, text) ==
    CASE outcome = "ok" -> [raised |-> "", value |-> Str(text), log |-> <<>>]
      [] outcome = "api_error" ->
            [raised |-> "", value |-> NoneVal, log |-> <<"ERROR Anthropic API Error">>]
      [] outcome \in {"other_error", "no_content"} ->
            [raised |-> "", value |-> NoneVal,
             log |-> <<"ERROR Unexpected error during API call">>]

(***************************************************************************)
(* CodeReviewer.format_review                                              *)
(***************************************************************************)
HEADER == "ESC[95m"
OKBLUE == "ESC[94m"
OKGREEN == "ESC[92m"
WARNING == "ESC[93m"
FAIL == "ESC[91m"
ENDC == "ESC[0m"
BOLD == "ESC[1m"

RuleWidth == 80

Rule == [i \in 1..RuleWidth |-> "="]

Title == <<"AI CODE REVIEW">>

CriticalPrefix == <<"#","#"," ","C","r","i","t","i","c","a","l">>
WarningPrefix == <<"#","#"," ","W","a","r","n","i","n","g">>
SuggestionPrefix == <<"#","#"," ","S","u","g","g","e","s","t","i","o","n">>
PositivePrefix == <<"#","#"," ","P","o","s","i","t","i","v","e">>
HeadingPrefix == <<"#","#">>

\* print(x): x and a line break.
PrintLine(x) == x \o <<NL>>

\* The chain with the generic heading test first.
StyleLineGenericFirst(line) ==
    IF StartsWith(line, HeadingPrefix) THEN <<BOLD>> \o line \o <<ENDC>>
    ELSE IF StartsWith(line, CriticalPrefix) THEN <<FAIL, BOLD>> \o line \o <<ENDC>>
    ELSE IF StartsWith(line, WarningPrefix) THEN <<WARNING, BOLD>> \o line \o <<ENDC>>
    ELSE IF StartsWith(line, SuggestionPrefix) THEN <<OKBLUE, BOLD>> \o line \o <<ENDC>>
    ELSE IF StartsWith(line, PositivePrefix) THEN <<OKGREEN, BOLD>> \o line \o <<ENDC>>
    ELSE line

\* The if/elif chain of the loop body: what is printed for one line.
StyleLine(line) ==
    IF StartsWith(line, CriticalPrefix) THEN <<FAIL, BOLD>> \o line \o <<ENDC>>
    ELSE IF StartsWith(line, WarningPrefix) THEN <<WARNING, BOLD>> \o line \o <<ENDC>>
    ELSE IF StartsWith(line, SuggestionPrefix) THEN <<OKBLUE, BOLD>> \o line \o <<ENDC>>
    ELSE IF StartsWith(line, PositivePrefix) THEN <<OKGREEN, BOLD>> \o line \o <<ENDC>>
    ELSE IF StartsWith(line, HeadingPrefix) THEN <<BOLD>> \o line \o <<ENDC>>
    ELSE line

Banner ==
    PrintLine(<<NL>> \o Rule)
        \o PrintLine(<<BOLD, HEADER>> \o Title \o <<ENDC>>)
        \o PrintLine(Rule \o <<NL>>)

Closing == PrintLine(<<NL>> \o Rule \o <<NL>>)

RECURSIVE PrintLines(_, _)
PrintLines(lines, i) ==
    IF i > Len(lines) THEN <<>>
    ELSE PrintLine(StyleLine(lines[i])) \o PrintLines(lines, i + 1)

\* Everything format_review writes to standard output.
FormatReviewOutput(review_text) ==
    Banner \o PrintLines(Split(review_text), 1) \o Closing

(***************************************************************************)
(* main: the decisions it takes on the values the methods return.          *)
(***************************************************************************)
\* Lines 199-205: what main does with the value get_git_diff returned.
GitPathDecision(diff_content) ==
    IF ~Truthy(diff_content) THEN "exit1"
    ELSE IF Strip(diff_content.str) = <<>> THEN "exit0"
    ELSE "review"

\* The emptiness tests applied to the file's contents as well.
FilePathDecisionChecked(diff_content) == GitPathDecision(diff_content)

\* Lines 183-190: the contents read from --diff-file go on to the review untested.
FilePathDecision(diff_content) == "review"

\* if review is not None
ReviewDecisionNotNone(review) == IF IsStr(review) THEN "format" ELSE "exit1"

\* A failed call tried again.
ReviewDecisionRetry(review) == IF Truthy(review) THEN "format" ELSE "review"

\* Lines 211-215: if review: format_review(review) else: sys.exit(1)
ReviewDecision(review) == IF Truthy(review) THEN "format" ELSE "exit1"

(***************************************************************************)
(* Inputs.                                                                 *)
(***************************************************************************)
DiffAlphabet == {"+", " ", NL}

Diffs == BoundedSeq(DiffAlphabet, MaxDiffLen)

CtxAlphabet == {"c", " ", "R"}

Contexts == BoundedSeq(CtxAlphabet, MaxCtxLen)

MainContexts == {<<>>, <<"c">>}

Branches == {<<"m", "a", "i", "n">>, <<"d", "e", "v">>}

\* --diff-file absent, given as the empty string, given as a path.
DiffFiles == {NoneVal, Str(<<>>), Str(<<"f">>)}

\* ANTHROPIC_API_KEY unset, set to the empty string, set.
EnvKeys == {NoneVal, Str(<<>>), Str(<<"k">>)}

FileOutcomes == {"missing", "unreadable", "ok"}

MainReviews ==
    {<<>>, <<NL>>, <<"o", "k">>, CriticalPrefix \o <<NL, NL>> \o WarningPrefix \o <<"s">>}

LineLeads == {<<>>, <<" ">>}

LineHeads ==
    {CriticalPrefix, WarningPrefix, SuggestionPrefix, PositivePrefix, HeadingPrefix,
     <<"#","#"," ","c","r","i","t","i","c","a","l">>,
     <<"#","#"," ","C","r","i","t","i","c","a">>,
     <<>>}

LineTails == {<<>>, <<"s", " ", "(", "x", ")">>}

FormatLines == {a \o b \o c : a \in LineLeads, b \in LineHeads, c \in LineTails}

RECURSIVE Join(_)
Join(lines) ==
    IF Len(lines) = 1 THEN lines[1] ELSE lines[1] \o <<NL>> \o Join(Tail(lines))

FormatTexts == {Join(ls) : ls \in UNION {[1..k -> FormatLines] : k \in 1..MaxLines}}

(***************************************************************************)
(* State.                                                                  *)
(***************************************************************************)
VARIABLES
    args,          \* the parsed options
    env_key,       \* os.getenv('ANTHROPIC_API_KEY')
    reviewer,      \* NoneVal, or the CodeReviewer constructed
    file,          \* NoneVal, or the open(args.diff_file) attempted and its outcome
    git,           \* NoneVal, or the subprocess.run attempted and its outcome
    diff_content,  \* main's diff_content: NoneVal or Str
    api,           \* NoneVal, or the messages.create call made and its outcome
    review,        \* main's review: NoneVal or Str
    stdout,        \* the characters printed
    log,           \* the messages logged
    events,        \* the outside calls made, in order
    pc,            \* main's position
    exit           \* how main ended

vars ==
    <<args, env_key, reviewer, file, git, diff_content, api, review, stdout, log,
      events, pc, exit>>

Running == [kind |-> "running"]

SysExit(code) == [kind |-> "sys_exit", code |-> code]

Returned == [kind |-> "return"]

Raised(type) == [kind |-> "exception", type |-> type]

Init ==
    /\ args \in [diff_file : DiffFiles, target_branch : Branches, staged : BOOLEAN,
                 context : MainContexts]
    /\ env_key \in EnvKeys
    /\ reviewer = NoneVal
    /\ file = NoneVal
    /\ git = NoneVal
    /\ diff_content = NoneVal
    /\ api = NoneVal
    /\ review = NoneVal
    /\ stdout = <<>>
    /\ log = <<>>
    /\ events = <<>>
    /\ pc = "init"
    /\ exit = Running

\* main, lines 173-180: reviewer = CodeReviewer()
Construct ==
    /\ pc = "init"
    /\ LET r == ResolveApiKey(NoneVal, env_key)
       IN /\ events' = Append(events, "ctor")
          /\ IF r.raised
             THEN /\ log' = log \o <<"ERROR Error: ANTHROPIC_API_KEY not found",
                                     "ERROR To set up your API key",
                                     "ERROR export ANTHROPIC_API_KEY">>
                  /\ exit' = SysExit(1)
                  /\ pc' = "done"
                  /\ UNCHANGED reviewer
             ELSE /\ reviewer' = [api_key |-> r.api_key, model |-> ModelName]
                  /\ pc' = "get_diff"
                  /\ UNCHANGED <<log, exit>>
    /\ UNCHANGED <<args, env_key, file, git, diff_content, api, review, stdout>>

\* main, lines 183-190: the diff read from --diff-file
ReadDiffFile ==
    /\ pc = "get_diff"
    /\ Truthy(args.diff_file)
    /\ \E outcome \in FileOutcomes, contents \in Diffs :
          /\ file' = [path |-> args.diff_file.str, outcome |-> outcome,
                      contents |-> IF outcome = "ok" THEN contents ELSE <<>>]
          /\ events' = Append(events, "open")
          /\ CASE outcome = "missing" ->
                    /\ log' = Append(log, "ERROR Error: File not found")
                    /\ exit' = SysExit(1)
                    /\ pc' = "done"
                    /\ UNCHANGED diff_content
               [] outcome = "unreadable" ->
                    /\ exit' = Raised("OSError")
                    /\ pc' = "done"
                    /\ UNCHANGED <<log, diff_content>>
               [] outcome = "ok" ->
                    LET d == FilePathDecision(Str(contents))
                    IN /\ diff_content' = Str(contents)
                       /\ IF d = "review"
                          THEN pc' = "review" /\ UNCHANGED <<log, exit>>
                          ELSE /\ log' = Append(log, "INFO No changes found to review.")
                               /\ exit' = SysExit(IF d = "exit0" THEN 0 ELSE 1)
                               /\ pc' = "done"
    /\ UNCHANGED <<args, env_key, reviewer, git, api, review, stdout>>

\* main, lines 192-205, with get_git_diff, lines 29-48
GetGitDiff ==
    /\ pc = "get_diff"
    /\ ~Truthy(args.diff_file)
    /\ \E outcome \in GitOutcomes, out \in Diffs :
          LET r == GitDiffResult(outcome, out)
              d == GitPathDecision(r.value)
              log1 == Append(log, "INFO Getting git diff...") \o r.log
          IN /\ git' = [cmd |-> GitCmd(args.target_branch, args.staged),
                        outcome |-> outcome,
                        stdout |-> IF outcome = "zero" THEN out ELSE <<>>]
             /\ events' = Append(events, "git")
             /\ IF r.raised /= ""
                THEN /\ exit' = Raised(r.raised)
                     /\ pc' = "done"
                     /\ log' = log1
                     /\ UNCHANGED diff_content
                ELSE /\ diff_content' = r.value
                     /\ IF d = "review"
                        THEN /\ pc' = "review"
                             /\ log' = log1
                             /\ UNCHANGED exit
                        ELSE /\ log' = Append(log1, "INFO No changes found to review.")
                             /\ exit' = SysExit(IF d = "exit0" THEN 0 ELSE 1)
                             /\ pc' = "done"
    /\ UNCHANGED <<args, env_key, reviewer, file, api, review, stdout>>

\* main, lines 208-215 up to the test of review, with review_code, lines 50-107
ReviewCode ==
    /\ pc = "review"
    /\ \E outcome \in ApiOutcomes, text \in MainReviews :
          LET r == ReviewResult(outcome, text)
              d == ReviewDecision(r.value)
              log1 == Append(log, "INFO Reviewing code with Claude Haiku 4.5...") \o r.log
          IN /\ api' = [model |-> reviewer.model, max_tokens |-> MaxTokens,
                        system |-> SystemPrompt,
                        user_prompt |-> UserPrompt(diff_content.str, args.context),
                        outcome |-> outcome,
                        text |-> IF outcome = "ok" THEN text ELSE <<>>]
             /\ events' = Append(events, "api")
             /\ IF r.raised /= ""
                THEN /\ exit' = Raised(r.raised)
                     /\ pc' = "done"
                     /\ log' = log1
                     /\ UNCHANGED review
                ELSE /\ review' = r.value
                     /\ IF d = "exit1"
                        THEN /\ log' = Append(log1, "ERROR Failed to get review from API.")
                             /\ exit' = SysExit(1)
                             /\ pc' = "done"
                        ELSE /\ pc' = d
                             /\ log' = log1
                             /\ UNCHANGED exit
    /\ UNCHANGED <<args, env_key, reviewer, file, git, diff_content, stdout>>

\* main, line 212: reviewer.format_review(review), lines 109-141, and main's return
FormatReview ==
    /\ pc = "format"
    /\ stdout' = stdout \o FormatReviewOutput(review.str)
    /\ events' = Append(events, "render")
    /\ exit' = Returned
    /\ pc' = "done"
    /\ UNCHANGED <<args, env_key, reviewer, file, git, diff_content, api, review, log>>

Next == Construct \/ ReadDiffFile \/ GetGitDiff \/ ReviewCode \/ FormatReview

Spec == Init /\ [][Next]_vars

(***************************************************************************)
(* format_review applied to bounded review texts.                          *)
(***************************************************************************)
InitFormat ==
    /\ args = [diff_file |-> NoneVal, target_branch |-> <<"m", "a", "i", "n">>,
               staged |-> FALSE, context |-> <<>>]
    /\ env_key = Str(<<"k">>)
    /\ reviewer = [api_key |-> Str(<<"k">>), model |-> ModelName]
    /\ file = NoneVal
    /\ git = [cmd |-> GitCmd(args.target_branch, args.staged), outcome |-> "zero",
              stdout |-> <<"+">>]
    /\ diff_content = Str(<<"+">>)
    /\ review \in {Str(t) : t \in FormatTexts \ {<<>>}}
    /\ api = [model |-> ModelName, max_tokens |-> MaxTokens, system |-> SystemPrompt,
              user_prompt |-> UserPrompt(<<"+">>, <<>>), outcome |-> "ok",
              text |-> review.str]
    /\ stdout = <<>>
    /\ log = <<"INFO Getting git diff...", "INFO Reviewing code with Claude Haiku 4.5...">>
    /\ events = <<"ctor", "git", "api">>
    /\ pc = "format"
    /\ exit = Running

SpecFormat == InitFormat /\ [][FormatReview]_vars

(***************************************************************************)
(* review_code applied to bounded diffs and contexts.                      *)
(***************************************************************************)
InitPrompt ==
    /\ args \in [diff_file : {Str(<<"f">>)}, target_branch : {<<"m", "a", "i", "n">>},
                 staged : {FALSE}, context : Contexts]
    /\ env_key = Str(<<"k">>)
    /\ reviewer = [api_key |-> Str(<<"k">>), model |-> ModelName]
    /\ diff_content \in {Str(d) : d \in Diffs}
    /\ file = [path |-> <<"f">>, outcome |-> "ok", contents |-> diff_content.str]
    /\ git = NoneVal
    /\ api = NoneVal
    /\ review = NoneVal
    /\ stdout = <<>>
    /\ log = <<>>
    /\ events = <<"ctor", "open">>
    /\ pc = "review"
    /\ exit = Running

SpecPrompt == InitPrompt /\ [][ReviewCode]_vars

(***************************************************************************)
(* Properties.                                                             *)
(***************************************************************************)
InEvents(e) == \E i \in 1..Len(events) : events[i] = e

InLog(m) == \E i \in 1..Len(log) : log[i] = m

EndsWith(s, suffix) ==
    Len(suffix) <= Len(s) /\ SubSeq(s, Len(s) - Len(suffix) + 1, Len(s)) = suffix

\* C1: on the version-control path, when git exits zero with empty or
\* whitespace-only output, main exits with code 0 and the remote service is
\* never called.
C1_EmptyGitDiffExitsZero ==
    (git /= NoneVal /\ git.outcome = "zero" /\ Strip(git.stdout) = <<>>)
        => (exit = SysExit(0) /\ api = NoneVal)

\* C2: main always ends through an exit with code 0 or 1 (or by returning after
\* the review is rendered), never through an exception leaving main.
C2_NoExceptionEscapes ==
    /\ exit.kind /= "exception"
    /\ pc = "done" => \/ exit = Returned
                      \/ exit = SysExit(0)
                      \/ exit = SysExit(1)

\* C3: with no credential (ANTHROPIC_API_KEY unset or empty), construction fails
\* and main exits with code 1 before anything else: no file read, no git run,
\* no remote call, nothing printed.
C3_MissingCredentialStopsFirst ==
    ~Truthy(env_key) =>
        /\ reviewer = NoneVal
        /\ file = NoneVal /\ git = NoneVal /\ api = NoneVal
        /\ ~InEvents("open") /\ ~InEvents("git") /\ ~InEvents("api") /\ ~InEvents("render")
        /\ stdout = <<>>
        /\ pc \in {"init", "done"}
        /\ pc = "done" => exit = SysExit(1)

C3_Witness == env_key = Str(<<>>) /\ pc = "done" /\ exit = SysExit(1)

\* C4: when the remote call fails or returns no text, review_code returns None
\* or "" without raising and main exits with code 1 with nothing printed;
\* anything is printed only when the call returned non-empty text, and then
\* the whole review from banner to closing rule is printed.
C4_FailedReviewRendersNothing ==
    /\ (api /= NoneVal /\ (api.outcome /= "ok" \/ api.text = <<>>)) =>
          /\ ~Truthy(review)
          /\ exit = SysExit(1)
          /\ stdout = <<>>
          /\ ~InEvents("render")
    /\ stdout /= <<>> =>
          /\ api /= NoneVal /\ api.outcome = "ok" /\ api.text /= <<>>
          /\ review = Str(api.text)
          /\ StartsWith(stdout, Banner) /\ EndsWith(stdout, Closing)
          /\ exit = Returned

C4_Witness ==
    /\ api /= NoneVal /\ api.outcome = "other_error"
    /\ exit = SysExit(1) /\ stdout = <<>>

\* C5: when git exits non-zero, in staged and in target-branch mode alike,
\* get_git_diff returns None without raising, and main exits with code 1
\* without calling the remote service.
C5_GitFailureIsAbsent ==
    (git /= NoneVal /\ git.outcome = "nonzero") =>
        /\ diff_content = NoneVal
        /\ exit = SysExit(1)
        /\ InLog("ERROR Error getting git diff")
        /\ api = NoneVal /\ ~InEvents("api")

C5_Witness ==
    /\ git /= NoneVal /\ git.outcome = "nonzero" /\ args.staged
    /\ git.cmd = <<"git", "diff", "--cached">>
    /\ exit = SysExit(1)

\* The positions of the line breaks of s.
NLPositions(s) == {i \in 1..Len(s) : s[i] = NL}

\* The same, in increasing order.
NLSeq(s) ==
    LET P == NLPositions(s)
    IN [k \in 1..Cardinality(P) |-> CHOOSE p \in P : Cardinality({q \in P : q <= p}) = k]

\* The i-th line of s by position: what lies between line breaks i-1 and i.
LineAt(s, i) ==
    LET ns == NLSeq(s)
        from == IF i = 1 THEN 1 ELSE ns[i - 1] + 1
        to == IF i > Len(ns) THEN Len(s) ELSE ns[i] - 1
    IN SubSeq(s, from, to)

\* The lines of the terminal output.
OutLines(s) == [i \in 1..(Cardinality(NLPositions(s)) + 1) |-> LineAt(s, i)]

\* The ordered table of (prefix, style) rules of the renderer.
StyleTable ==
    <<[prefix |-> CriticalPrefix, open |-> <<FAIL, BOLD>>],
      [prefix |-> WarningPrefix, open |-> <<WARNING, BOLD>>],
      [prefix |-> SuggestionPrefix, open |-> <<OKBLUE, BOLD>>],
      [prefix |-> PositivePrefix, open |-> <<OKGREEN, BOLD>>],
      [prefix |-> HeadingPrefix, open |-> <<BOLD>>]>>

\* The first rule of the table whose prefix the line starts with, 0 when none.
FirstRule(line) ==
    LET m == {i \in 1..Len(StyleTable) : StartsWith(line, StyleTable[i].prefix)}
    IN IF m = {} THEN 0 ELSE CHOOSE i \in m : \A j \in m : i <= j

TableStyled(line) ==
    IF FirstRule(line) = 0 THEN line
    ELSE StyleTable[FirstRule(line)].open \o line \o <<ENDC>>

\* The lines printed between the banner (5 lines) and the closing (4 lines).
BannerLines == 5

ClosingLines == 4

\* C6: every line of the review text is printed in the style of the first rule
\* of the table whose prefix it starts with, and verbatim when no rule matches.
C6_FirstMatchingPrefixStyles ==
    (pc = "done" /\ stdout /= <<>>) =>
        LET lines == Split(review.str)
            out == OutLines(stdout)
        IN \A i \in 1..Len(lines) :
              /\ BannerLines + i <= Len(out)
              /\ out[BannerLines + i] = TableStyled(lines[i])

C6_Witness ==
    /\ pc = "done" /\ stdout /= <<>>
    /\ \E i, j \in 1..Len(Split(review.str)) :
          /\ StartsWith(Split(review.str)[i], CriticalPrefix)
          /\ Split(review.str)[j] = <<"#","#"," ","c","r","i","t","i","c","a","l">>

StyleCodes == {HEADER, OKBLUE, OKGREEN, WARNING, FAIL, ENDC, BOLD}

IsText(c) == c \notin StyleCodes

Unstyle(line) == SelectSeq(line, IsText)

\* C7: the output is the banner, then one line per line of the input, in the
\* input's order, empty lines included, each the input line inside its style
\* markers, then the closing rule.
C7_OneOutputLinePerInputLine ==
    (pc = "done" /\ stdout /= <<>>) =>
        LET out == OutLines(stdout)
            n == Cardinality(NLPositions(review.str)) + 1
        IN /\ Len(out) = BannerLines + n + ClosingLines
           /\ SubSeq(out, 1, BannerLines) =
                 <<<<>>, Rule, <<BOLD, HEADER>> \o Title \o <<ENDC>>, Rule, <<>>>>
           /\ \A i \in 1..n : Unstyle(out[BannerLines + i]) = LineAt(review.str, i)
           /\ SubSeq(out, BannerLines + n + 1, Len(out)) = <<<<>>, Rule, <<>>, <<>>>>

C7_Witness ==
    /\ pc = "done" /\ stdout /= <<>>
    /\ Cardinality(NLPositions(review.str)) >= 1
    /\ \E i \in 1..(Cardinality(NLPositions(review.str)) + 1) : LineAt(review.str, i) = <<>>

\* part occurs in s at position p.
At(s, p, part) ==
    /\ p >= 1 /\ p + Len(part) - 1 <= Len(s)
    /\ SubSeq(s, p, p + Len(part) - 1) = part

\* The first position >= from where part occurs in s, 0 when there is none.
FirstAt(s, part, from) ==
    LET ps == {p \in from..(Len(s) + 1) : At(s, p, part)}
    IN IF ps = {} THEN 0 ELSE CHOOSE p \in ps : \A q \in ps : p <= q

\* The parts occur in s one after the other, in this order, without overlap.
RECURSIVE InOrderFrom(_, _, _)
InOrderFrom(s, parts, from) ==
    IF parts = <<>> THEN TRUE
    ELSE LET p == FirstAt(s, Head(parts), from)
         IN p /= 0 /\ InOrderFrom(s, Tail(parts), p + Len(Head(parts)))

Fenced(diff) == FenceOpen \o <<NL>> \o diff \o <<NL>> \o FenceClose

\* C8 as stated: the user message is the context, then the instruction line,
\* then the fenced diff, then the trailing instruction.
C8_ContextBeforeInstruction ==
    api /= NoneVal =>
        InOrderFrom(api.user_prompt,
                    <<args.context, ReviewThis, Fenced(diff_content.str), ProvideReview>>, 1)

\* C8 (amended): the user message is the instruction line, then the context
\* (possibly empty), then the diff verbatim inside a fenced block labeled diff,
\* then the trailing instruction, with blank lines between them and nothing else.
C8_InstructionContextDiffTrailer ==
    api /= NoneVal =>
        LET up == api.user_prompt
            ctx == args.context
            fd == Fenced(diff_content.str)
            pCtx == Len(ReviewThis) + 3
            pFd == pCtx + Len(ctx) + 2
            pEnd == pFd + Len(fd) + 2
        IN /\ At(up, 1, ReviewThis)
           /\ At(up, Len(ReviewThis) + 1, <<NL, NL>>)
           /\ At(up, pCtx, ctx)
           /\ At(up, pCtx + Len(ctx), <<NL, NL>>)
           /\ At(up, pFd, fd)
           /\ At(up, pFd + Len(fd), <<NL, NL>>)
           /\ At(up, pEnd, ProvideReview)
           /\ Len(up) = pEnd + Len(ProvideReview) - 1

C8_Witness ==
    /\ api /= NoneVal
    /\ args.context /= <<>>
    /\ diff_content.str /= <<>> /\ Head(diff_content.str) \in Whitespace

\* The place of an event in the pipeline.
Stage(e) ==
    CASE e = "ctor" -> 1
      [] e \in {"open", "git"} -> 2
      [] e = "api" -> 3
      [] e = "render" -> 4

\* C9: the steps happen in the order credential check, diff acquisition, remote
\* call, render, each at most once; no remote call before a diff is there, no
\* render before the remote call returned text.
C9_LinearPipeline ==
    /\ \A i, j \in 1..Len(events) : i < j => Stage(events[i]) < Stage(events[j])
    /\ InEvents("api") => /\ IsStr(diff_content)
                          /\ InEvents("open") \/ InEvents("git")
                          /\ InEvents("ctor")
    /\ InEvents("render") => /\ InEvents("api")
                             /\ api.outcome = "ok"
                             /\ IsStr(review)

C9_Witness == events = <<"ctor", "git", "api", "render">> /\ pc = "done"

\* C10: when --diff-file is given and readable, git is never run and the
\* contents, empty or not, are sent to the remote service; the exit-0
\* "no changes found" outcome happens only on the version-control path.
C10_DiffFileBypassesGit ==
    /\ (file /= NoneVal /\ file.outcome = "ok") =>
          /\ git = NoneVal /\ ~InEvents("git")
          /\ diff_content = Str(file.contents)
          /\ pc \in {"review", "format", "done"}
          /\ pc = "review" => exit = Running
          /\ pc /= "review" =>
                /\ api /= NoneVal
                /\ FirstAt(api.user_prompt, Fenced(file.contents), 1) /= 0
    /\ (InLog("INFO No changes found to review.") /\ exit = SysExit(0)) =>
          /\ file = NoneVal /\ ~InEvents("open")
          /\ git /= NoneVal /\ git.outcome = "zero"

C10_Witness ==
    /\ file /= NoneVal /\ file.outcome = "ok"
    /\ Strip(file.contents) = <<>>
    /\ api /= NoneVal
    /\ args.staged

====
